---- MODULE Spec2Model ----
(***************************************************************************)
(* Rotor machine of src/unnamed/part_004 (lines 171-333): Rotor, Enigma,   *)
(* plugboardSwap, mod.                                                     *)
(*                                                                         *)
(* A JavaScript string is a sequence of symbols (one symbol per UTF-16     *)
(* code unit, named by a TLA+ string): 'A' is <<"A">>, '' is << >>, 'AB'   *)
(* is <<"A", "B">>.  Indices are 0-based as in the source; CharAt gives    *)
(* the value undefined outside the string, as s[k] does.                   *)
(***************************************************************************)
EXTENDS Integers, Sequences, FiniteSets, TLC

VARIABLES
    arrays,     \* heap of the caller's pair lists: reference -> list of [a, b]
    config,     \* the four constructor arguments both machines are built from
    enigma,     \* machine -> [rotors, plugboardPairs (a reference into arrays)]
    call,       \* machine -> its last completed call: op, arg, ret, machine before
    calls,      \* number of calls made so far
    pc,         \* position inside the encryptChar call in progress
    c,          \* encryptChar's variable c
    ix,         \* encryptChar's loop variable i
    trace,      \* the operations the call in progress has performed, in order
    thrown,     \* the exception the last call ended with, "none" if it returned
    rotor,      \* a Rotor object that belongs to no machine (const rotor = new Rotor)
    results,    \* the calls made on a rotor, the reflector or plugboardSwap, in order
    log         \* machine -> its completed calls, in order: op, arg, ret

vars ==
    <<arrays, config, enigma, call, calls, pc, c, ix, trace, thrown, rotor,
      results, log>>

----------------------------------------------------------------------------
(* Strings *)

Undefined == <<"undefined">>

CharAt(s, k) == IF k \in 0..(Len(s) - 1) THEN <<s[k + 1]>> ELSE Undefined

\* String.prototype.indexOf: first offset at which sub occurs in s, else -1
RECURSIVE indexFrom(_, _, _)
indexFrom(s, sub, k) ==
    IF k > Len(s) - Len(sub) THEN -1
    ELSE IF \A j \in 1..Len(sub) : s[k + j] = sub[j] THEN k
    ELSE indexFrom(s, sub, k + 1)

alphabet ==
    <<"A", "B", "C", "D", "E", "F", "G", "H", "I", "J", "K", "L", "M",
      "N", "O", "P", "Q", "R", "S", "T", "U", "V", "W", "X", "Y", "Z">>

lowercase ==
    <<"a", "b", "c", "d", "e", "f", "g", "h", "i", "j", "k", "l", "m",
      "n", "o", "p", "q", "r", "s", "t", "u", "v", "w", "x", "y", "z">>

\* String.prototype.toUpperCase on one code unit: a-z map to A-Z, the sharp s
\* maps to the two letters SS, every other symbol of the model maps to itself
upperOf(sym) ==
    IF \E k \in 1..26 : lowercase[k] = sym
    THEN <<alphabet[CHOOSE k \in 1..26 : lowercase[k] = sym]>>
    ELSE IF sym = "ß" THEN <<"S", "S">> ELSE <<sym>>

RECURSIVE toUpperCase(_)
toUpperCase(text) ==
    IF text = << >> THEN << >>
    ELSE upperOf(Head(text)) \o toUpperCase(Tail(text))

\* the remainder operator %: the result has the sign of the dividend
Rem(n, m) == IF n >= 0 THEN n % m ELSE -((-n) % m)

\* m added once before the remainder is taken
mod_addOnce(n, m) == Rem(n + m, m)

\* the remainder alone, negative for a negative n
mod_remainderOnly(n, m) == Rem(n, m)

mod(n, m) == Rem(Rem(n, m) + m, m)

----------------------------------------------------------------------------
(* Tables *)

ROTORS == <<
    [wiring |-> <<"E","K","M","F","L","G","D","Q","V","Z","N","T","O",
                  "W","Y","H","X","U","S","P","A","I","B","R","C","J">>,
     notch  |-> <<"Q">>],
    [wiring |-> <<"A","J","D","K","S","I","R","U","X","B","L","H","W",
                  "T","M","C","Q","G","Z","N","P","Y","F","V","O","E">>,
     notch  |-> <<"E">>],
    [wiring |-> <<"B","D","F","H","J","L","C","P","R","T","X","V","Z",
                  "N","Y","E","I","W","G","A","K","M","U","S","Q","O">>,
     notch  |-> <<"V">>] >>

\* the table with its first two letters transposed
REFLECTOR_transposed ==
    <<"R","Y","U","H","Q","S","L","D","P","X","N","G","O",
      "K","M","I","E","B","F","Z","C","W","V","J","A","T">>

REFLECTOR ==
    <<"Y","R","U","H","Q","S","L","D","P","X","N","G","O",
      "K","M","I","E","B","F","Z","C","W","V","J","A","T">>

\* indexFrom tabulated once for the searches the machine repeats: a single
\* letter looked up in the alphabet or in a catalog wiring
Letters == {alphabet[k] : k \in 1..Len(alphabet)}

TabulatedStrings == {alphabet} \cup {ROTORS[k].wiring : k \in 1..Len(ROTORS)}

IndexTable ==
    [s \in TabulatedStrings |-> [sym \in Letters |-> indexFrom(s, <<sym>>, 0)]]

indexOf(s, sub) ==
    IF Len(sub) = 1 /\ sub[1] \in Letters /\ s \in TabulatedStrings
    THEN IndexTable[s][sub[1]]
    ELSE indexFrom(s, sub, 0)

\* String.prototype.includes
includes(s, sub) == indexOf(s, sub) # -1

\* ROTORS[id] with the source's 0-based id
RotorSpec(id) == ROTORS[id + 1]

----------------------------------------------------------------------------
(* plugboardSwap *)

\* the swap made in one direction only: the second test of line 188 left out
RECURSIVE plugboardSwap_oneWay(_, _)
plugboardSwap_oneWay(ch, pairs) ==
    IF pairs = << >> THEN ch
    ELSE IF ch = Head(pairs)[1] THEN Head(pairs)[2]
    ELSE plugboardSwap_oneWay(ch, Tail(pairs))

RECURSIVE plugboardSwap(_, _)
plugboardSwap(ch, pairs) ==
    IF pairs = << >> THEN ch
    ELSE IF ch = Head(pairs)[1] THEN Head(pairs)[2]
    ELSE IF ch = Head(pairs)[2] THEN Head(pairs)[1]
    ELSE plugboardSwap(ch, Tail(pairs))

----------------------------------------------------------------------------
(* class Rotor *)

Rotor(wiring, notch, ringSetting, position) ==
    [wiring |-> wiring, notch |-> notch,
     ringSetting |-> ringSetting, position |-> position]

\* the position incremented without the reduction modulo 26
step_noWrap(r) == [r EXCEPT !.position = r.position + 1]

\* the ring setting carried along with the position
step_ringToo(r) ==
    [r EXCEPT !.position = mod(r.position + 1, 26),
              !.ringSetting = mod(r.ringSetting + 1, 26)]

step(r) == [r EXCEPT !.position = mod(r.position + 1, 26)]

\* the notch read against the position less the ring setting
atNotch_ringShifted(r) ==
    CharAt(alphabet, mod(r.position - r.ringSetting, 26)) = r.notch

atNotch(r) == CharAt(alphabet, r.position) = r.notch

\* the ring setting left out of the offset
forward_ringDropped(r, ch) ==
    LET idx == mod(indexOf(alphabet, ch) + r.position, 26)
    IN  CharAt(r.wiring, idx)

forward(r, ch) ==
    LET idx == mod(indexOf(alphabet, ch) + r.position - r.ringSetting, 26)
    IN  CharAt(r.wiring, idx)

\* the offset applied with the sign forward uses
backward_forwardOffset(r, ch) ==
    LET idx == indexOf(r.wiring, ch)
    IN  CharAt(alphabet, mod(idx + r.position - r.ringSetting, 26))

backward(r, ch) ==
    LET idx == indexOf(r.wiring, ch)
    IN  CharAt(alphabet, mod(idx - r.position + r.ringSetting, 26))

----------------------------------------------------------------------------
(* class Enigma.  A machine is [rotors, plugboardPairs]; rotors is the     *)
(* array this.rotors with the source's indices 0 (left), 1 (middle),       *)
(* 2 (right); plugboardPairs is the reference the constructor was given.   *)

\* list[i] given as an argument that has the default 0: past the end of the
\* list the value is undefined and the default applies
OrDefault(list, i) == IF i + 1 \in DOMAIN list THEN list[i + 1] ELSE 0

\* ROTORS[id] is undefined for an id that is no index of the catalog, and
\* reading its wiring throws a TypeError
NewEnigmaThrows(rotorIDs) ==
    \E i \in 1..Len(rotorIDs) : rotorIDs[i] \notin 0..(Len(ROTORS) - 1)

\* the ring settings not handed to the rotors, which take the default 0
NewEnigma_ringsDropped(rotorIDs, rotorPositions, ringSettings, plugboardPairs) ==
    [rotors |-> [i \in 0..(Len(rotorIDs) - 1) |->
                    Rotor(RotorSpec(rotorIDs[i + 1]).wiring,
                          RotorSpec(rotorIDs[i + 1]).notch,
                          0,
                          OrDefault(rotorPositions, i))],
     plugboardPairs |-> plugboardPairs]

\* rotorIDs.map((id, i) => new Rotor(...)): one rotor per entry of rotorIDs
NewEnigma(rotorIDs, rotorPositions, ringSettings, plugboardPairs) ==
    [rotors |-> [i \in 0..(Len(rotorIDs) - 1) |->
                    Rotor(RotorSpec(rotorIDs[i + 1]).wiring,
                          RotorSpec(rotorIDs[i + 1]).notch,
                          OrDefault(ringSettings, i),
                          OrDefault(rotorPositions, i))],
     plugboardPairs |-> plugboardPairs]

\* the stepping before the fix of src/6/fix.md (Bug 2): the right rotor's notch
\* pushes the middle rotor first, the middle rotor's notch is read afterwards
\* and moves the left rotor only
stepRotors_beforeFix(e) ==
    LET r1 == IF atNotch(e.rotors[2])
              THEN [e.rotors EXCEPT ![1] = step(@)] ELSE e.rotors
        r2 == IF atNotch(r1[1]) THEN [r1 EXCEPT ![0] = step(@)] ELSE r1
    IN  [e EXCEPT !.rotors = [r2 EXCEPT ![2] = step(@)]]

\* the two notch conditions made exclusive (else if)
stepRotors_exclusive(e) ==
    LET r1 == IF atNotch(e.rotors[1])
              THEN [e.rotors EXCEPT ![0] = step(@), ![1] = step(@)]
              ELSE IF atNotch(e.rotors[2])
                   THEN [e.rotors EXCEPT ![1] = step(@)] ELSE e.rotors
    IN  [e EXCEPT !.rotors = [r1 EXCEPT ![2] = step(@)]]

\* the middle rotor's notch read after the right rotor has pushed it
stepRotors_lateRead(e) ==
    LET r1 == IF atNotch(e.rotors[2])
              THEN [e.rotors EXCEPT ![1] = step(@)] ELSE e.rotors
        r2 == IF atNotch(r1[1])
              THEN [r1 EXCEPT ![0] = step(@), ![1] = step(@)] ELSE r1
    IN  [e EXCEPT !.rotors = [r2 EXCEPT ![2] = step(@)]]

stepRotors(e) ==
    LET middleAtNotch == atNotch(e.rotors[1])
        rightAtNotch  == atNotch(e.rotors[2])
        r1 == IF middleAtNotch
              THEN [e.rotors EXCEPT ![0] = step(@), ![1] = step(@)]
              ELSE e.rotors
        r2 == IF rightAtNotch THEN [r1 EXCEPT ![1] = step(@)] ELSE r1
        r3 == [r2 EXCEPT ![2] = step(@)]
    IN  [e EXCEPT !.rotors = r3]

rotorsLength(e) == Cardinality(DOMAIN e.rotors)

\* this.rotors[1] or this.rotors[2] is undefined in a machine of fewer than
\* three rotors, and calling atNotch on it throws a TypeError before any
\* rotor has moved
stepRotorsThrows(e) == rotorsLength(e) < 3

\* for (let i = this.rotors.length - 1; i >= 0; i--) c = this.rotors[i].forward(c)
RECURSIVE forwardPass(_, _, _)
forwardPass(e, i, ch) ==
    IF i >= 0 THEN forwardPass(e, i - 1, forward(e.rotors[i], ch)) ELSE ch

\* c = REFLECTOR[alphabet.indexOf(c)]
reflect(ch) == CharAt(REFLECTOR, indexOf(alphabet, ch))

\* for (let i = 0; i < this.rotors.length; i++) c = this.rotors[i].backward(c)
RECURSIVE backwardPass(_, _, _)
backwardPass(e, i, ch) ==
    IF i < rotorsLength(e)
    THEN backwardPass(e, i + 1, backward(e.rotors[i], ch))
    ELSE ch

\* the signal path before the fix of src/6/fix.md (Bug 1): no plugboard swap
\* on the way out
encryptChar_noOutputSwap(e, ch) ==
    IF ~includes(alphabet, ch) THEN [enigma |-> e, ret |-> ch]
    ELSE LET e1 == stepRotors(e)
             c1 == plugboardSwap(ch, arrays[e1.plugboardPairs])
             c2 == forwardPass(e1, rotorsLength(e1) - 1, c1)
             c3 == reflect(c2)
             c4 == backwardPass(e1, 0, c3)
         IN  [enigma |-> e1, ret |-> c4]

\* the result is the machine after the call and the value returned
encryptChar(e, ch) ==
    IF ~includes(alphabet, ch) THEN [enigma |-> e, ret |-> ch]
    ELSE LET e1 == stepRotors(e)
             c1 == plugboardSwap(ch, arrays[e1.plugboardPairs])
             c2 == forwardPass(e1, rotorsLength(e1) - 1, c1)
             c3 == reflect(c2)
             c4 == backwardPass(e1, 0, c3)
             c5 == plugboardSwap(c4, arrays[e1.plugboardPairs])
         IN  [enigma |-> e1, ret |-> c5]

\* Array.prototype.join('') writes an undefined element as the empty string
joined(x) == IF x = Undefined THEN << >> ELSE x

\* .split('').map((c) => this.encryptChar(c)).join('')
RECURSIVE mapEncryptChar(_, _)
mapEncryptChar(e, text) ==
    IF text = << >> THEN [enigma |-> e, ret |-> << >>]
    ELSE LET first == encryptChar(e, <<Head(text)>>)
             rest  == mapEncryptChar(first.enigma, Tail(text))
         IN  [enigma |-> rest.enigma, ret |-> joined(first.ret) \o rest.ret]

\* the text split as it is, without toUpperCase
process_noUpperCase(e, text) == mapEncryptChar(e, text)

\* the empty text split into one empty string, as ''.split(',') is
process_splitBlank(e, text) ==
    IF text = << >>
    THEN LET r == encryptChar(e, << >>)
         IN  [enigma |-> r.enigma, ret |-> joined(r.ret)]
    ELSE mapEncryptChar(e, toUpperCase(text))

process(e, text) == mapEncryptChar(e, toUpperCase(text))

----------------------------------------------------------------------------
(* Bounds of the model *)

NumOrders == 3      \* rotor orders tried
MaxKeys == 2        \* encryptChar calls per run of the keystroke machine
MaxLen == 3         \* length of a text given to process
MaxReflections == 4 \* reflector look-ups made one after the other
MaxPairs == 2       \* pairs in a list given to plugboardSwap
MaxSteps == 26      \* step calls made on a rotor that belongs to no machine
MaxCalls == 3       \* calls made on two machines side by side
MaxOperand == 60    \* largest absolute value of a number given to mod
MaxModulus == 27    \* largest modulus given to mod
MaxRun == 16901     \* stepRotors calls in a long run of the stepping machine
MaxPart == 2        \* length of each of two texts processed one after the other

----------------------------------------------------------------------------
(* Configurations and calls *)

\* the k-th rotor order: 0 is [0, 1, 2], 1 is [1, 2, 0], 2 is [2, 0, 1], and
\* the following ones run through the orders with a repeated rotor
OrderOf(k) ==
    <<k % 3,
      ((k % 3) + 1 + ((k \div 3) % 3)) % 3,
      ((k % 3) + 2 + ((k \div 9) % 3)) % 3>>

RotorOrders == {OrderOf(k) : k \in 0..(NumOrders - 1)}

Positions == 0..25

\* the position at which rotor id is at its notch
NotchIndex(id) == indexOf(alphabet, RotorSpec(id).notch)

\* start positions around the turnovers: each rotor is one before its notch,
\* at its notch, or at the last position
StartPositions(ids) ==
    {p \in [1..3 -> Positions] :
        \A i \in 1..3 :
            p[i] \in {NotchIndex(ids[i]) - 1, NotchIndex(ids[i]), 25}}

RingChoices == {<<0, 0, 0>>, <<1, 2, 3>>}

\* no pairs, and [['A', 'B'], ['C', 'D']] of src/7/test_report.md
PairChoices == {<< >>, << <<(<<"A">>), (<<"B">>)>>, <<(<<"C">>), (<<"D">>)>> >>}

\* all strings over the symbols syms of length at most n
StringsUpTo(syms, n) == UNION {[1..k -> syms] : k \in 0..n}

NoCall == [op |-> "none", arg |-> << >>, ret |-> << >>, before |-> << >>]

\* new Enigma(rotorIDs, rotorPositions, ringSettings, pairs), twice, as the
\* callers of src/7/test_report.md do (enigma1, enigma2); pairs is one list
Construct(rotorIDs, rotorPositions, ringSettings, pairs) ==
    /\ arrays = [ref \in {1} |-> pairs]
    /\ config = [rotorIDs |-> rotorIDs, rotorPositions |-> rotorPositions,
                 ringSettings |-> ringSettings, plugboardPairs |-> 1]
    /\ enigma = [m \in 1..2 |->
                    NewEnigma(rotorIDs, rotorPositions, ringSettings, 1)]
    /\ call = [m \in 1..2 |-> NoCall]
    /\ calls = 0
    /\ pc = "idle"
    /\ c = << >>
    /\ ix = 0
    /\ trace = << >>
    /\ thrown = "none"
    /\ rotor = << >>
    /\ results = << >>
    /\ log = [m \in 1..2 |-> << >>]

\* the call op(arg) of machine m is completed and returned ret
Logged(m, op, arg, ret) ==
    log' = [log EXCEPT ![m] = Append(@, [op |-> op, arg |-> arg, ret |-> ret])]

\* the rotors kept in one place for all machines: the call moves the rotors of
\* every machine
EncryptCharCall_sharedRotors(m, ch) ==
    LET r == encryptChar(enigma[m], ch)
    IN  /\ pc = "idle"
        /\ enigma' = [k \in DOMAIN enigma |->
                          [enigma[k] EXCEPT !.rotors = r.enigma.rotors]]
        /\ call' = [call EXCEPT ![m] = [op |-> "encryptChar", arg |-> ch,
                                        ret |-> r.ret, before |-> enigma[m]]]
        /\ Logged(m, "encryptChar", ch, r.ret)
        /\ calls' = calls + 1
        /\ UNCHANGED <<thrown, rotor, results, arrays, config, pc, c, ix, trace>>

\* machine m runs encryptChar(ch) to completion
EncryptCharCall(m, ch) ==
    LET r == encryptChar(enigma[m], ch)
    IN  /\ pc = "idle"
        /\ enigma' = [enigma EXCEPT ![m] = r.enigma]
        /\ call' = [call EXCEPT ![m] = [op |-> "encryptChar", arg |-> ch,
                                        ret |-> r.ret, before |-> enigma[m]]]
        /\ Logged(m, "encryptChar", ch, r.ret)
        /\ calls' = calls + 1
        /\ UNCHANGED <<thrown, rotor, results, arrays, config, pc, c, ix, trace>>

\* the rotors kept in one place for all machines: the call moves the rotors of
\* every machine
ProcessCall_sharedRotors(m, text) ==
    LET r == process(enigma[m], text)
    IN  /\ pc = "idle"
        /\ enigma' = [k \in DOMAIN enigma |->
                          [enigma[k] EXCEPT !.rotors = r.enigma.rotors]]
        /\ call' = [call EXCEPT ![m] = [op |-> "process", arg |-> text,
                                        ret |-> r.ret, before |-> enigma[m]]]
        /\ Logged(m, "process", text, r.ret)
        /\ calls' = calls + 1
        /\ UNCHANGED <<thrown, rotor, results, arrays, config, pc, c, ix, trace>>

\* machine m runs process(text) to completion
\* the rotors put back at the configuration's positions before the text is
\* processed
ProcessCall_fromStart(m, text) ==
    LET r == process(NewEnigma(config.rotorIDs, config.rotorPositions,
                               config.ringSettings, config.plugboardPairs),
                     text)
    IN  /\ pc = "idle"
        /\ enigma' = [enigma EXCEPT ![m] = r.enigma]
        /\ call' = [call EXCEPT ![m] = [op |-> "process", arg |-> text,
                                        ret |-> r.ret, before |-> enigma[m]]]
        /\ Logged(m, "process", text, r.ret)
        /\ calls' = calls + 1
        /\ UNCHANGED <<thrown, rotor, results, arrays, config, pc, c, ix, trace>>

ProcessCall(m, text) ==
    LET r == process(enigma[m], text)
    IN  /\ pc = "idle"
        /\ enigma' = [enigma EXCEPT ![m] = r.enigma]
        /\ call' = [call EXCEPT ![m] = [op |-> "process", arg |-> text,
                                        ret |-> r.ret, before |-> enigma[m]]]
        /\ Logged(m, "process", text, r.ret)
        /\ calls' = calls + 1
        /\ UNCHANGED <<thrown, rotor, results, arrays, config, pc, c, ix, trace>>

----------------------------------------------------------------------------
(* SpecKeys: the keystroke machine.  One machine, started at every rotor   *)
(* position, is given letters one at a time.                               *)

KeyLetters == {<<"A">>}

InitKeys ==
    \E ids \in RotorOrders, p \in [1..3 -> Positions] :
        Construct(ids, p, <<0, 0, 0>>, << >>)

Keystroke ==
    /\ calls < MaxKeys
    /\ \E ch \in KeyLetters : EncryptCharCall(1, ch)

NextKeys == Keystroke

SpecKeys == InitKeys /\ [][NextKeys]_vars

\* machine 1's last call was a keystroke: encryptChar on one of the 26 letters
IsKeystroke ==
    /\ call[1].op = "encryptChar"
    /\ Len(call[1].arg) = 1
    /\ \E k \in 1..26 : alphabet[k] = call[1].arg[1]

\* rotor i of machine 1 is n positions (modulo 26) past where it was before
\* the machine's last call
Advanced(i, n) ==
    enigma[1].rotors[i].position
        = (call[1].before.rotors[i].position + n) % 26

\* C4: double stepping.  After a keystroke that found the middle rotor at its
\* notch and the right rotor not at its notch, the left, the middle and the
\* right rotor are each exactly one position further (modulo 26).
C4_DoubleStepping ==
    (IsKeystroke /\ atNotch(call[1].before.rotors[1])
                 /\ ~atNotch(call[1].before.rotors[2]))
        => (Advanced(0, 1) /\ Advanced(1, 1) /\ Advanced(2, 1))

C4_Witness ==
    /\ IsKeystroke
    /\ atNotch(call[1].before.rotors[1]) /\ ~atNotch(call[1].before.rotors[2])
    /\ call[1].before.rotors[0].position = 25
    /\ enigma[1].rotors[0].position = 0
    /\ Advanced(1, 1) /\ Advanced(2, 1)

\* C5: right-notch-only stepping.  After a keystroke that found the right
\* rotor at its notch and the middle rotor not at its notch, the middle and
\* the right rotor are one position further and the left rotor has not moved.
C5_RightNotchOnly ==
    (IsKeystroke /\ atNotch(call[1].before.rotors[2])
                 /\ ~atNotch(call[1].before.rotors[1]))
        => (Advanced(0, 0) /\ Advanced(1, 1) /\ Advanced(2, 1))

\* the middle rotor is pushed onto its notch and the left rotor stays
C5_Witness ==
    /\ IsKeystroke
    /\ atNotch(call[1].before.rotors[2]) /\ ~atNotch(call[1].before.rotors[1])
    /\ atNotch(enigma[1].rotors[1])
    /\ Advanced(0, 0) /\ Advanced(1, 1) /\ Advanced(2, 1)

\* C6: the two notch conditions are independent.  After a keystroke that found
\* both the middle and the right rotor at their notches the middle rotor is two
\* positions further, the left and the right rotor one; and after no keystroke
\* is the middle rotor more than two positions further.
C6_BothNotches ==
    IsKeystroke =>
        /\ (atNotch(call[1].before.rotors[1]) /\ atNotch(call[1].before.rotors[2]))
              => (Advanced(0, 1) /\ Advanced(1, 2) /\ Advanced(2, 1))
        /\ (Advanced(1, 0) \/ Advanced(1, 1) \/ Advanced(1, 2))

C6_Witness ==
    /\ IsKeystroke
    /\ atNotch(call[1].before.rotors[1]) /\ atNotch(call[1].before.rotors[2])
    /\ Advanced(0, 1) /\ Advanced(1, 2) /\ Advanced(2, 1)

\* C8: the notches are read before anything moves.  After every keystroke the
\* left rotor is one position further if the middle rotor was at its notch
\* before the keystroke, and where it was otherwise: whatever the left rotor's
\* own notch, the right rotor's notch, or the middle rotor's position after
\* the keystroke.
C8_NotchesReadBefore ==
    IsKeystroke =>
        IF atNotch(call[1].before.rotors[1]) THEN Advanced(0, 1) ELSE Advanced(0, 0)

\* the right rotor pushes the middle rotor onto its notch, the left rotor is at
\* its own notch, and the left rotor stays
C8_Witness ==
    /\ IsKeystroke
    /\ ~atNotch(call[1].before.rotors[1]) /\ atNotch(call[1].before.rotors[2])
    /\ atNotch(call[1].before.rotors[0])
    /\ atNotch(enigma[1].rotors[1])
    /\ Advanced(0, 0)

\* the machine new Enigma builds from the configuration
Fresh ==
    NewEnigma(config.rotorIDs, config.rotorPositions, config.ringSettings,
              config.plugboardPairs)

\* the rotors of the machine at its construction
Start == Fresh.rotors

\* rotor r is one position before its notch
BeforeNotch(r) == atNotch(step(r))

\* C26: the double step across two keystrokes.  When the machine started with
\* the right rotor at its notch and the middle rotor one position before its
\* own notch, the first keystroke has put the middle rotor on its notch, and
\* the second keystroke has moved the middle rotor once more and the left
\* rotor by one.
C26_DoubleStepTwoKeys ==
    (/\ calls = 2 /\ IsKeystroke
     /\ atNotch(Start[2]) /\ BeforeNotch(Start[1]))
        => LET mid == call[1].before.rotors
           IN  /\ mid[1].position = (Start[1].position + 1) % 26
               /\ atNotch(mid[1])
               /\ Advanced(1, 1)
               /\ Advanced(0, 1)

\* the left rotor goes from 25 to 0 in the second keystroke
C26_Witness ==
    /\ calls = 2 /\ IsKeystroke
    /\ atNotch(Start[2]) /\ BeforeNotch(Start[1])
    /\ Start[0].position = 25
    /\ call[1].before.rotors[0].position = 25
    /\ enigma[1].rotors[0].position = 0
    /\ enigma[1].rotors[1].position = (Start[1].position + 2) % 26

\* C33: the middle rotor leaves its notch.  After a keystroke that found the
\* middle rotor at its notch the middle rotor is not at its notch; hence of
\* two keystrokes one after the other, at most one has moved the left rotor.
C33_MiddleLeavesNotch ==
    /\ (IsKeystroke /\ atNotch(call[1].before.rotors[1]))
          => ~atNotch(enigma[1].rotors[1])
    /\ (calls = 2 /\ IsKeystroke)
          => \/ call[1].before.rotors[0].position = Start[0].position
             \/ Advanced(0, 0)

\* both notches: the middle rotor goes two positions on, and the left rotor,
\* moved by the first keystroke, stays in the second
C33_Witness ==
    /\ calls = 2 /\ IsKeystroke
    /\ atNotch(Start[1]) /\ atNotch(Start[2])
    /\ call[1].before.rotors[0].position = (Start[0].position + 1) % 26
    /\ ~atNotch(call[1].before.rotors[1])
    /\ call[1].before.rotors[1].position = (Start[1].position + 2) % 26
    /\ Advanced(0, 0)

----------------------------------------------------------------------------
(* SpecText: one machine processes one text of letters, lower-case         *)
(* letters, digits, punctuation and the sharp s.                           *)

TextSymbols == {"A", "b", "1", ",", "ß"}

Texts == StringsUpTo(TextSymbols, MaxLen)

\* new Enigma([0, 1, 2], ...), the rotor order of every caller in the sources
InitText ==
    \E p \in StartPositions(<<0, 1, 2>>), rings \in RingChoices,
       pairs \in PairChoices :
        Construct(<<0, 1, 2>>, p, rings, pairs)

ProcessText ==
    /\ call[1].op = "none"
    /\ \E text \in Texts : ProcessCall(1, text)

NextText == ProcessText

SpecText == InitText /\ [][NextText]_vars

IsLetter(sym) == sym \in Letters

\* a letter, upper or lower case, or the sharp s
IsAnyLetter(sym) ==
    IsLetter(sym) \/ (\E k \in 1..26 : lowercase[k] = sym) \/ sym = "ß"

\* the number of letters A-Z in s
RECURSIVE LetterCount(_)
LetterCount(s) ==
    IF s = << >> THEN 0
    ELSE (IF IsLetter(Head(s)) THEN 1 ELSE 0) + LetterCount(Tail(s))

RECURSIVE LettersOf(_)
LettersOf(s) ==
    IF s = << >> THEN << >>
    ELSE (IF IsAnyLetter(Head(s)) THEN <<Head(s)>> ELSE << >>)
            \o LettersOf(Tail(s))

\* C9: non-letter passthrough.  process(text) returns every digit and
\* punctuation mark of the text unchanged at its own index; the rotors end
\* where they end after processing the text with its non-letters removed, and
\* the letters of the output are the output of that second run.
C9_NonLetterPassthrough ==
    call[1].op = "process" =>
        LET text   == call[1].arg
            out    == call[1].ret
            stripped == process(call[1].before, LettersOf(text))
        IN  /\ \A i \in 1..Len(text) :
                  ~IsAnyLetter(text[i]) => (i <= Len(out) /\ out[i] = text[i])
            /\ enigma[1].rotors = stripped.enigma.rotors
            /\ LettersOf(out) = stripped.ret

\* C9 holds of every text that upper-casing leaves at its length: the sharp s,
\* which toUpperCase writes as the two letters SS, is the only way it fails
C9_WhenLengthKept ==
    (call[1].op = "process" /\ Len(toUpperCase(call[1].arg)) = Len(call[1].arg))
        => C9_NonLetterPassthrough

\* C23: length and order.  process(text) returns as many characters as the
\* text has, and the character at each index is what the machine, having
\* processed the characters before that index, returns for the character at
\* that index alone.
C23_SameLengthSameOrder ==
    call[1].op = "process" =>
        LET text == call[1].arg
            out  == call[1].ret
        IN  /\ Len(out) = Len(text)
            /\ \A i \in 1..Len(text) :
                  LET e == process(call[1].before, SubSeq(text, 1, i - 1)).enigma
                  IN  i <= Len(out) /\ process(e, <<text[i]>>).ret = <<out[i]>>

\* C23 holds of every text that upper-casing leaves at its length
C23_WhenLengthKept ==
    (call[1].op = "process" /\ Len(toUpperCase(call[1].arg)) = Len(call[1].arg))
        => C23_SameLengthSameOrder

\* C30: the empty string.  process('') returns '' and leaves the machine, its
\* three rotor positions included, as it was before the call.
C30_EmptyString ==
    (call[1].op = "process" /\ call[1].arg = << >>)
        => /\ call[1].ret = << >>
           /\ \A i \in 0..2 : Advanced(i, 0)
           /\ enigma[1] = call[1].before

\* the machine with ring settings and pairs, after process('')
C30_Witness ==
    /\ call[1].op = "process" /\ call[1].arg = << >>
    /\ call[1].ret = << >>
    /\ config.ringSettings = <<1, 2, 3>>
    /\ arrays[enigma[1].plugboardPairs] # << >>
    /\ enigma[1] = Fresh

\* the machine e after n calls of stepRotors
RECURSIVE Stepped(_, _)
Stepped(e, n) == IF n = 0 THEN e ELSE Stepped(stepRotors(e), n - 1)

\* the machine of the configuration's rotor order and positions, with ring
\* settings (0, 0, 0)
PlainStart ==
    NewEnigma(config.rotorIDs, config.rotorPositions, <<0, 0, 0>>,
              config.plugboardPairs)

PositionsOf(e) == [i \in DOMAIN e.rotors |-> e.rotors[i].position]

----------------------------------------------------------------------------
(* SpecRoundTrip: machine 1 processes a message of letters, then machine   *)
(* 2, built from the same configuration, processes what machine 1          *)
(* returned.                                                               *)

Messages ==
    StringsUpTo({"A", "B"}, MaxLen)
        \cup {<<sym>> : sym \in Letters}
        \cup {<<"H", "E", "L", "L", "O">>}

InitRoundTrip ==
    \E ids \in RotorOrders :
        \E p \in StartPositions(ids), rings \in RingChoices,
           pairs \in PairChoices :
            Construct(ids, p, rings, pairs)

Encrypt ==
    /\ call[1].op = "none"
    /\ \E message \in Messages : ProcessCall(1, message)

Decrypt ==
    /\ call[1].op = "process"
    /\ call[2].op = "none"
    /\ ProcessCall(2, call[1].ret)

NextRoundTrip == Encrypt \/ Decrypt

SpecRoundTrip == InitRoundTrip /\ [][NextRoundTrip]_vars

\* C1: involution.  When a fresh machine has processed a message M of letters
\* A-Z and a second fresh machine of the same configuration has processed the
\* output, the second output is M.
C1_Involution ==
    (/\ call[1].op = "process" /\ call[1].before = Fresh
     /\ call[2].op = "process" /\ call[2].before = Fresh
     /\ call[2].arg = call[1].ret
     /\ \A i \in 1..Len(call[1].arg) : IsLetter(call[1].arg[i]))
        => call[2].ret = call[1].arg

\* HELLO comes back through a plugboard and non-zero ring settings, with a
\* turnover of the middle rotor on the way
C1_Witness ==
    /\ call[2].op = "process"
    /\ call[1].arg = <<"H", "E", "L", "L", "O">>
    /\ call[2].arg = call[1].ret
    /\ call[2].ret = call[1].arg
    /\ \A i \in 1..5 : call[1].ret[i] # call[1].arg[i]
    /\ arrays[config.plugboardPairs] # << >>
    /\ config.ringSettings = <<1, 2, 3>>
    /\ enigma[2].rotors[1].position # config.rotorPositions[2]

----------------------------------------------------------------------------
(* SpecSignal: one encryptChar call on machine 1, statement by statement.  *)
(* pc names the statement to run next; trace lists the operations the call *)
(* has performed: <<"stepRotors">>, <<"plugboardSwap">>, <<"forward", i>>, *)
(* <<"reflector">>, <<"backward", i>>.                                     *)

\* the values given to encryptChar: the 26 letters, and a lower-case letter,
\* a digit, punctuation, a space, the sharp s, '' and two strings of two
\* letters
CharArgs ==
    {<<sym>> : sym \in Letters \cup {"b", "1", ",", " ", "ß"}}
        \cup {<< >>, <<"A", "B">>, <<"B", "A">>}

InitSignal ==
    \E ids \in RotorOrders :
        \E p \in StartPositions(ids), rings \in RingChoices,
           pairs \in PairChoices :
            Construct(ids, p, rings, pairs)

\* line 253, the guard fails: return c
EncReturnUnchanged ==
    /\ pc = "idle" /\ call[1].op = "none"
    /\ \E ch \in CharArgs :
        /\ ~includes(alphabet, ch)
        /\ call' = [call EXCEPT ![1] = [op |-> "encryptChar", arg |-> ch,
                                        ret |-> ch, before |-> enigma[1]]]
        /\ Logged(1, "encryptChar", ch, ch)
    /\ calls' = calls + 1
    /\ UNCHANGED <<thrown, rotor, results, arrays, config, enigma, pc, c, ix, trace>>

\* line 253, the guard passes
EncEnter ==
    /\ pc = "idle" /\ call[1].op = "none"
    /\ \E ch \in CharArgs :
        /\ includes(alphabet, ch)
        /\ c' = ch
        /\ call' = [call EXCEPT ![1] = [op |-> "running", arg |-> ch,
                                        ret |-> << >>, before |-> enigma[1]]]
    /\ pc' = "stepRotors"
    /\ UNCHANGED <<log, thrown, rotor, results, arrays, config, enigma, calls, ix, trace>>

\* line 254
EncStepRotors ==
    /\ pc = "stepRotors"
    /\ enigma' = [enigma EXCEPT ![1] = stepRotors(@)]
    /\ trace' = Append(trace, <<"stepRotors">>)
    /\ pc' = "plugboardIn"
    /\ UNCHANGED <<log, thrown, rotor, results, arrays, config, call, calls, c, ix>>

\* line 257, and the initialisation of the loop of line 260
EncPlugboardIn ==
    /\ pc = "plugboardIn"
    /\ c' = plugboardSwap(c, arrays[enigma[1].plugboardPairs])
    /\ trace' = Append(trace, <<"plugboardSwap">>)
    /\ ix' = rotorsLength(enigma[1]) - 1
    /\ pc' = "forward"
    /\ UNCHANGED <<log, thrown, rotor, results, arrays, config, enigma, call, calls>>

\* the forward loop run from the left rotor to the right one
EncForward_leftFirst ==
    /\ pc = "forward"
    /\ c' = forward(enigma[1].rotors[rotorsLength(enigma[1]) - 1 - ix], c)
    /\ trace' = Append(trace, <<"forward", rotorsLength(enigma[1]) - 1 - ix>>)
    /\ ix' = ix - 1
    /\ pc' = IF ix - 1 >= 0 THEN "forward" ELSE "reflector"
    /\ UNCHANGED <<log, thrown, rotor, results, arrays, config, enigma, call, calls>>

\* lines 260-262, one turn of the loop; the loop ends when i drops below 0
EncForward ==
    /\ pc = "forward"
    /\ c' = forward(enigma[1].rotors[ix], c)
    /\ trace' = Append(trace, <<"forward", ix>>)
    /\ ix' = ix - 1
    /\ pc' = IF ix - 1 >= 0 THEN "forward" ELSE "reflector"
    /\ UNCHANGED <<log, thrown, rotor, results, arrays, config, enigma, call, calls>>

\* line 265, and the initialisation of the loop of line 268
EncReflector ==
    /\ pc = "reflector"
    /\ c' = reflect(c)
    /\ trace' = Append(trace, <<"reflector">>)
    /\ ix' = 0
    /\ pc' = "backward"
    /\ UNCHANGED <<log, thrown, rotor, results, arrays, config, enigma, call, calls>>

\* lines 268-270, one turn of the loop
EncBackward ==
    /\ pc = "backward"
    /\ c' = backward(enigma[1].rotors[ix], c)
    /\ trace' = Append(trace, <<"backward", ix>>)
    /\ ix' = ix + 1
    /\ pc' = IF ix + 1 < rotorsLength(enigma[1]) THEN "backward"
                                                ELSE "plugboardOut"
    /\ UNCHANGED <<log, thrown, rotor, results, arrays, config, enigma, call, calls>>

\* line 275 left out, as before the fix of src/6/fix.md (Bug 1)
EncPlugboardOut_skipped ==
    /\ pc = "plugboardOut"
    /\ pc' = "return"
    /\ UNCHANGED <<log, thrown, rotor, results, arrays, config, enigma, call, calls, c, ix, trace>>

\* line 275
EncPlugboardOut ==
    /\ pc = "plugboardOut"
    /\ c' = plugboardSwap(c, arrays[enigma[1].plugboardPairs])
    /\ trace' = Append(trace, <<"plugboardSwap">>)
    /\ pc' = "return"
    /\ UNCHANGED <<log, thrown, rotor, results, arrays, config, enigma, call, calls, ix>>

\* line 277
EncReturn ==
    /\ pc = "return"
    /\ call' = [call EXCEPT ![1].op = "encryptChar", ![1].ret = c]
    /\ Logged(1, "encryptChar", call[1].arg, c)
    /\ calls' = calls + 1
    /\ pc' = "idle"
    /\ UNCHANGED <<thrown, rotor, results, arrays, config, enigma, c, ix, trace>>

NextSignal ==
    \/ EncReturnUnchanged
    \/ EncEnter
    \/ EncStepRotors
    \/ EncPlugboardIn
    \/ EncForward
    \/ EncReflector
    \/ EncBackward
    \/ EncPlugboardOut
    \/ EncReturn

SpecSignal == InitSignal /\ [][NextSignal]_vars

\* the places of the operation op in the trace
Places(op) == {k \in 1..Len(trace) : trace[k][1] = op}

\* the call started on a one-letter string
OnLetter == Len(call[1].arg) = 1 /\ IsLetter(call[1].arg[1])

\* C2: the plugboard swap is applied exactly twice per letter.  At no point of
\* a call are there more than two swaps; when the call returns there are two,
\* the first before every forward step and the second after every backward
\* step.
C2_PlugboardTwice ==
    /\ Cardinality(Places("plugboardSwap")) <= 2
    /\ (pc = "return" /\ OnLetter) =>
          /\ Cardinality(Places("plugboardSwap")) = 2
          /\ \E first, second \in Places("plugboardSwap") :
                /\ first < second
                /\ \A k \in Places("forward") : first < k
                /\ \A k \in Places("backward") : k < second
          /\ Places("forward") # {} /\ Places("backward") # {}

\* a call on a plugged letter is about to return
C2_Witness ==
    /\ pc = "return"
    /\ call[1].arg = <<"A">>
    /\ arrays[enigma[1].plugboardPairs] # << >>
    /\ Cardinality(Places("plugboardSwap")) = 2
    /\ trace[2] = <<"plugboardSwap">>
    /\ trace[Len(trace)] = <<"plugboardSwap">>

\* C3: the order of the steps.  A call on a letter has, when it returns,
\* performed exactly: stepRotors, plugboard swap, forward through rotors 2
\* (right), 1, 0 (left), the reflector, backward through rotors 0, 1, 2,
\* plugboard swap; the rotors stand where stepRotors put them and the letter
\* returned is the one substituted at those positions.
C3_StepOrder ==
    (pc = "return" /\ OnLetter) =>
        /\ trace = << <<"stepRotors">>, <<"plugboardSwap">>,
                      <<"forward", 2>>, <<"forward", 1>>, <<"forward", 0>>,
                      <<"reflector">>,
                      <<"backward", 0>>, <<"backward", 1>>, <<"backward", 2>>,
                      <<"plugboardSwap">> >>
        /\ enigma[1] = stepRotors(call[1].before)
        /\ LET e1    == stepRotors(call[1].before)
               pairs == arrays[e1.plugboardPairs]
               in    == plugboardSwap(call[1].arg, pairs)
               left  == forward(e1.rotors[0],
                            forward(e1.rotors[1], forward(e1.rotors[2], in)))
               back  == backward(e1.rotors[2],
                            backward(e1.rotors[1],
                                backward(e1.rotors[0], reflect(left))))
           IN  c = plugboardSwap(back, pairs)

\* a call that turned the middle and the left rotor is about to return
C3_Witness ==
    /\ pc = "return" /\ OnLetter
    /\ Len(trace) = 10
    /\ enigma[1].rotors[0].position # call[1].before.rotors[0].position
    /\ enigma[1].rotors[1].position # call[1].before.rotors[1].position
    /\ c # call[1].arg

\* C10: values outside the alphabet.  encryptChar called with a value that is
\* none of the 26 letters (a digit, punctuation, a space, a lower-case
\* letter, '', a longer string) returns the value and steps no rotor.
C10_NonAlphabetUnchanged ==
    (call[1].op = "encryptChar" /\ ~OnLetter)
        => (call[1].ret = call[1].arg /\ enigma[1] = call[1].before)

\* C10 holds of every value that does not occur in the alphabet as a substring:
\* '' and 'AB' do, pass the guard of line 253 and are encrypted as a letter
C10_WhenNoSubstring ==
    (call[1].op = "encryptChar" /\ ~includes(alphabet, call[1].arg))
        => C10_NonAlphabetUnchanged

----------------------------------------------------------------------------
(* SpecLetters: one machine is given one letter, any of the 26.  The       *)
(* machines without plugboard and ring settings start with the middle and  *)
(* the right rotor at every position; the machines with ring settings and  *)
(* pairs start around the turnovers.                                       *)

InitLetters ==
    \E ids \in RotorOrders :
        \/ \E p \in [1..3 -> Positions] :
              /\ p[1] \in {NotchIndex(ids[1]) - 1, NotchIndex(ids[1]), 25}
              /\ Construct(ids, p, <<0, 0, 0>>, << >>)
        \/ \E p \in StartPositions(ids), rings \in RingChoices,
               pairs \in PairChoices :
              Construct(ids, p, rings, pairs)

PressLetter ==
    /\ call[1].op = "none"
    /\ \E sym \in Letters : EncryptCharCall(1, <<sym>>)

NextLetters == PressLetter

SpecLetters == InitLetters /\ [][NextLetters]_vars

\* C11: no letter encrypts to itself.  Whatever the rotor order, the rotor
\* positions, the ring settings and the pairs, encryptChar called with one of
\* the 26 letters returns one of the 26 letters, and not the one it was given.
C11_NeverItself ==
    IsKeystroke =>
        /\ Len(call[1].ret) = 1 /\ IsLetter(call[1].ret[1])
        /\ call[1].ret # call[1].arg

\* the plugged letter A, with ring settings, on a keystroke that turned the
\* middle rotor
C11_Witness ==
    /\ IsKeystroke
    /\ call[1].arg = <<"A">>
    /\ call[1].ret # <<"A">>
    /\ arrays[enigma[1].plugboardPairs] # << >>
    /\ enigma[1].rotors[0].ringSetting = 1
    /\ ~Advanced(1, 0)

----------------------------------------------------------------------------
(* The parts on their own: a Rotor object, the reflector table and         *)
(* plugboardSwap called directly, as the tests of src/7/test_report.md do. *)

\* no machine is built: the state holds the rotor r and the pair list pairs
Standalone(r, pairs) ==
    /\ arrays = [ref \in {1} |-> pairs]
    /\ config = r
    /\ enigma = << >>
    /\ call = << >>
    /\ calls = 0
    /\ pc = "idle"
    /\ c = << >>
    /\ ix = 0
    /\ trace = << >>
    /\ thrown = "none"
    /\ rotor = r
    /\ results = << >>
    /\ log = << >>

\* the call op(arg) returned ret
Returned(op, arg, ret) ==
    /\ results' = Append(results, [op |-> op, arg |-> arg, ret |-> ret])
    /\ calls' = calls + 1

LastResult == results[Len(results)]

----------------------------------------------------------------------------
(* SpecRotor: a catalog rotor at any position and ring setting takes a     *)
(* letter forward, then takes the result backward.                         *)

InitRotor ==
    \E id \in 0..2, ringSetting \in Positions, position \in Positions :
        Standalone(Rotor(RotorSpec(id).wiring, RotorSpec(id).notch,
                         ringSetting, position), << >>)

RotorForward ==
    /\ results = << >>
    /\ \E x \in Letters : Returned("forward", <<x>>, forward(rotor, <<x>>))
    /\ UNCHANGED <<arrays, config, enigma, call, pc, c, ix, trace, thrown, rotor, log>>

RotorBackward ==
    /\ Len(results) = 1
    /\ Returned("backward", results[1].ret, backward(rotor, results[1].ret))
    /\ UNCHANGED <<arrays, config, enigma, call, pc, c, ix, trace, thrown, rotor, log>>

NextRotor == RotorForward \/ RotorBackward

SpecRotor == InitRotor /\ [][NextRotor]_vars

\* C12: rotor reversibility.  For each catalog rotor, position, ring setting
\* and letter x, backward called with what forward(x) returned, the rotor not
\* having moved in between, returns x; and forward(x) is a letter.
C12_RotorReversible ==
    (/\ Len(results) = 2
     /\ results[1].op = "forward" /\ results[2].op = "backward"
     /\ results[2].arg = results[1].ret)
        => /\ results[2].ret = results[1].arg
           /\ Len(results[1].ret) = 1 /\ IsLetter(results[1].ret[1])

\* rotor II, position behind the ring setting, so that the offset is negative
C12_Witness ==
    /\ Len(results) = 2
    /\ rotor.wiring = RotorSpec(1).wiring
    /\ rotor.position = 2 /\ rotor.ringSetting = 25
    /\ results[1].arg = <<"A">>
    /\ results[1].ret # <<"A">>
    /\ results[2].arg = results[1].ret
    /\ results[2].ret = <<"A">>

\* the index in 0..25 at which the string s of 26 distinct letters holds x
PlaceIn(s, x) == CHOOSE k \in 0..25 : s[k + 1] = x

\* n reduced to 0..25, for n no less than -26
Wrapped(n) == (n + 26) % 26

\* C27: the rotor formulas.  For each catalog rotor, position p, ring setting
\* s and letter x, forward(x) is the wiring's letter at index
\* (index of x in the alphabet + p - s) reduced to 0..25, and backward(y) is
\* the alphabet's letter at index (index of y in the wiring - p + s) reduced
\* to 0..25, also when the sum is negative; both results are letters.
C27_RotorFormulas ==
    \A k \in 1..Len(results) :
        LET r == results[k]
            x == r.arg[1]
        IN  /\ r.op = "forward" =>
                  r.ret = <<rotor.wiring[Wrapped(PlaceIn(alphabet, x)
                              + rotor.position - rotor.ringSetting) + 1]>>
            /\ r.op = "backward" =>
                  r.ret = <<alphabet[Wrapped(PlaceIn(rotor.wiring, x)
                              - rotor.position + rotor.ringSetting) + 1]>>
            /\ r.op \in {"forward", "backward"} =>
                  (Len(r.ret) = 1 /\ IsLetter(r.ret[1]))

\* rotor I at position 5: forward takes V (21 + 5 = 26) to the wiring's first
\* letter E, and backward takes E (0 - 5 = -5) to V
C27_Witness ==
    /\ Len(results) = 2
    /\ rotor.wiring = RotorSpec(0).wiring
    /\ rotor.position = 5 /\ rotor.ringSetting = 0
    /\ results[1] = [op |-> "forward", arg |-> <<"V">>, ret |-> <<"E">>]
    /\ results[2] = [op |-> "backward", arg |-> <<"E">>, ret |-> <<"V">>]

----------------------------------------------------------------------------
(* SpecReflector: a letter is looked up in the reflector table, then the   *)
(* letter found is looked up, and so on.                                   *)

InitReflector == Standalone(<< >>, << >>)

Reflect ==
    /\ Len(results) < MaxReflections
    /\ \E x \in (IF results = << >> THEN {<<sym>> : sym \in Letters}
                                     ELSE {LastResult.ret}) :
          Returned("reflect", x, reflect(x))
    /\ UNCHANGED <<arrays, config, enigma, call, pc, c, ix, trace, thrown, rotor, log>>

NextReflector == Reflect

SpecReflector == InitReflector /\ [][NextReflector]_vars

\* C13: the reflector.  The table holds each of the 26 letters once; a letter
\* looked up gives another letter, and that letter looked up gives the first
\* one back.
C13_ReflectorInvolution ==
    /\ Len(REFLECTOR) = 26
    /\ {REFLECTOR[k] : k \in 1..26} = Letters
    /\ \A k \in 1..Len(results) :
          /\ Len(results[k].ret) = 1 /\ IsLetter(results[k].ret[1])
          /\ results[k].ret # results[k].arg
          /\ (k > 1 /\ results[k].arg = results[k - 1].ret)
                => results[k].ret = results[k - 1].arg

\* A gives Y and Y gives A
C13_Witness ==
    /\ Len(results) >= 2
    /\ results[1].op = "reflect" /\ results[1].arg = <<"A">>
    /\ results[1].ret = <<"Y">>
    /\ results[2].arg = <<"Y">> /\ results[2].ret = <<"A">>

----------------------------------------------------------------------------
(* SpecPlugboard: plugboardSwap is called with a symbol and a list of      *)
(* pairs that share no letter, then with the symbol it returned and the    *)
(* same list.                                                              *)

PlugLetters == {"A", "B", "C", "D", "E"}

\* the pairs [a, b] that .match(/([A-Z]{2})/g) of line 303 cuts out of the
\* letters typed: two letters, which may be the same letter
LetterPairs == {<<(<<a>>), (<<b>>)>> : a \in PlugLetters, b \in PlugLetters}

\* the lists of at most n pairs in which no letter is in two pairs
DisjointPairLists(n) ==
    {l \in UNION {[1..k -> LetterPairs] : k \in 0..n} :
        \A i \in 1..Len(l), j \in 1..Len(l) :
            i < j => {l[i][1], l[i][2]} \cap {l[j][1], l[j][2]} = {}}

\* a letter in a pair or in none, a lower-case letter, a digit, a space, ''
\* and a string of two letters
PlugSymbols ==
    {<<sym>> : sym \in PlugLetters \cup {"Z", "b", "1", " "}}
        \cup {<< >>, <<"A", "B">>}

InitPlugboard ==
    \E pairs \in DisjointPairLists(MaxPairs) : Standalone(<< >>, pairs)

Swap ==
    /\ results = << >>
    /\ \E ch \in PlugSymbols :
          Returned("plugboardSwap", ch, plugboardSwap(ch, arrays[1]))
    /\ UNCHANGED <<arrays, config, enigma, call, pc, c, ix, trace, thrown, rotor, log>>

SwapBack ==
    /\ Len(results) = 1
    /\ Returned("plugboardSwap", results[1].ret,
                plugboardSwap(results[1].ret, arrays[1]))
    /\ UNCHANGED <<arrays, config, enigma, call, pc, c, ix, trace, thrown, rotor, log>>

NextPlugboard == Swap \/ SwapBack

SpecPlugboard == InitPlugboard /\ [][NextPlugboard]_vars

\* C14: the plugboard is a partial involution.  With pairs that share no
\* letter, plugboardSwap returns the partner of a letter that is in a pair and
\* returns any other symbol as it is; called again with what it returned, it
\* returns the symbol it was first given.
C14_PlugboardInvolution ==
    /\ Len(results) >= 1 =>
          LET ch    == results[1].arg
              pairs == arrays[1]
          IN  /\ \A k \in 1..Len(pairs) :
                    /\ ch = pairs[k][1] => results[1].ret = pairs[k][2]
                    /\ ch = pairs[k][2] => results[1].ret = pairs[k][1]
              /\ (\A k \in 1..Len(pairs) : ch # pairs[k][1] /\ ch # pairs[k][2])
                    => results[1].ret = ch
    /\ (Len(results) = 2 /\ results[2].arg = results[1].ret)
          => results[2].ret = results[1].arg

\* the second letter of the second pair goes to the first letter and back
C14_Witness ==
    /\ Len(results) = 2
    /\ Len(arrays[1]) = 2
    /\ results[1].arg = arrays[1][2][2]
    /\ results[1].ret = arrays[1][2][1]
    /\ results[1].ret # results[1].arg
    /\ results[2].ret = results[1].arg

----------------------------------------------------------------------------
(* SpecRotorStep: a catalog rotor at any position is stepped again and     *)
(* again.  results holds the last call; its arg is the rotor before it.    *)

InitRotorStep ==
    \E id \in 0..2, ringSetting \in {0, 25}, position \in Positions :
        Standalone(Rotor(RotorSpec(id).wiring, RotorSpec(id).notch,
                         ringSetting, position), << >>)

RotorStep ==
    /\ calls < MaxSteps
    /\ rotor' = step(rotor)
    /\ results' = <<[op |-> "step", arg |-> rotor, ret |-> Undefined]>>
    /\ calls' = calls + 1
    /\ UNCHANGED <<arrays, config, enigma, call, pc, c, ix, trace, thrown, log>>

NextRotorStep == RotorStep

SpecRotorStep == InitRotorStep /\ [][NextRotorStep]_vars

\* C15: rotor step periodicity.  A step leaves the rotor at (position + 1)
\* modulo 26, so at 0 when it was at 25, and changes nothing else; after 26
\* steps the rotor is at the position it started from.
C15_StepPeriod ==
    /\ results # << >> =>
          /\ rotor = [LastResult.arg EXCEPT
                          !.position = (LastResult.arg.position + 1) % 26]
          /\ LastResult.arg.position = 25 => rotor.position = 0
    /\ calls = 26 => rotor.position = config.position

\* 26 steps from position 7, the last one from 6
C15_Witness ==
    /\ calls = 26
    /\ config.position = 7
    /\ LastResult.op = "step" /\ LastResult.arg.position = 6
    /\ rotor.position = 7

----------------------------------------------------------------------------
(* SpecNotch: a catalog rotor at any position and ring setting is asked    *)
(* whether it is at its notch, is put at another position, and is asked    *)
(* again.  Each result's arg is the rotor the call was made on.            *)

InitNotch ==
    \E id \in 0..2, ringSetting \in Positions, position \in Positions :
        Standalone(Rotor(RotorSpec(id).wiring, RotorSpec(id).notch,
                         ringSetting, position), << >>)

AtNotchCall ==
    /\ calls < 2
    /\ Len(results) = calls
    /\ Returned("atNotch", rotor, atNotch(rotor))
    /\ UNCHANGED <<arrays, config, enigma, call, pc, c, ix, trace, thrown, rotor, log>>

SetPosition ==
    /\ calls = 1
    /\ rotor = results[1].arg
    /\ \E position \in Positions \ {rotor.position} :
           rotor' = [rotor EXCEPT !.position = position]
    /\ UNCHANGED <<arrays, config, enigma, call, calls, pc, c, ix, trace, thrown, results, log>>

NextNotch == AtNotchCall \/ SetPosition

SpecNotch == InitNotch /\ [][NextNotch]_vars

\* the catalog number of the rotor r, by its wiring
CatalogId(r) == CHOOSE id \in 0..2 : RotorSpec(id).wiring = r.wiring

\* C28: atNotch.  Each call of atNotch returns true exactly when the alphabet
\* symbol at the rotor's position is the rotor's notch symbol, that is exactly
\* at position 16 (Q) for rotor I, 4 (E) for rotor II and 21 (V) for rotor
\* III, whatever the ring setting.
C28_AtNotch ==
    \A k \in 1..Len(results) :
        results[k].op = "atNotch" =>
            LET r == results[k].arg
            IN  /\ results[k].ret <=> (alphabet[r.position + 1] = r.notch[1])
                /\ results[k].ret <=> (r.position = <<16, 4, 21>>[CatalogId(r) + 1])
                /\ r.notch = <<(<<"Q", "E", "V">>[CatalogId(r) + 1])>>

\* rotor I with ring setting 7: at its notch at position 16, not at 15
C28_Witness ==
    /\ Len(results) = 2
    /\ rotor.wiring = RotorSpec(0).wiring /\ rotor.ringSetting = 7
    /\ results[1].op = "atNotch" /\ results[1].arg.position = 16
    /\ results[1].ret = TRUE
    /\ results[2].op = "atNotch" /\ results[2].arg.position = 15
    /\ results[2].ret = FALSE

----------------------------------------------------------------------------
(* SpecConstruct: new Enigma is called with arguments of every kind, those *)
(* of a well-formed configuration and others, and the machine it returns,  *)
(* if it returns one, is given a letter.                                   *)

\* [0, 1, 2]; an identifier that is no index of ROTORS; two, four, one and no
\* identifiers
IdChoices ==
    {<<0, 1, 2>>, <<0, 1, 3>>, <<-1, 1, 2>>, <<0, 1>>, <<0, 1, 2, 0>>,
     <<0>>, << >>}

\* what posStr.split(' ').map(Number) gives for '0 0 0', '0 4 21', '26 4 21',
\* '0 0 -1', '0 0 47' and '0 0'
PositionChoices ==
    {<<0, 0, 0>>, <<0, 4, 21>>, <<26, 4, 21>>, <<0, 0, -1>>, <<0, 0, 47>>,
     <<0, 0>>}

RingSettingChoices == {<<0, 0, 0>>, <<1, 2, 3>>, <<0, 0, 26>>, <<-1, 0, 0>>}

\* no pairs; AB CD; AB BC, with B in two pairs; A paired with a digit
PairListChoices ==
    {<< >>,
     << <<(<<"A">>), (<<"B">>)>>, <<(<<"C">>), (<<"D">>)>> >>,
     << <<(<<"A">>), (<<"B">>)>>, <<(<<"B">>), (<<"C">>)>> >>,
     << <<(<<"A">>), (<<"1">>)>> >>}

\* the caller holds the four arguments; no machine exists yet
InitConstruct ==
    \E rotorIDs \in IdChoices, rotorPositions \in PositionChoices,
       ringSettings \in RingSettingChoices, pairs \in PairListChoices :
        /\ arrays = [ref \in {1} |-> pairs]
        /\ config = [rotorIDs |-> rotorIDs, rotorPositions |-> rotorPositions,
                     ringSettings |-> ringSettings, plugboardPairs |-> 1]
        /\ enigma = << >>
        /\ call = << >>
        /\ calls = 0
        /\ pc = "idle"
        /\ c = << >>
        /\ ix = 0
        /\ trace = << >>
        /\ thrown = "none"
        /\ rotor = << >>
        /\ results = << >>
        /\ log = << >>

\* const enigma = new Enigma(...): machine 1 exists if the constructor returns
NewEnigmaCall ==
    /\ calls = 0
    /\ IF NewEnigmaThrows(config.rotorIDs)
       THEN /\ thrown' = "TypeError"
            /\ UNCHANGED <<enigma, call, log>>
       ELSE /\ enigma' = [m \in {1} |-> Fresh]
            /\ call' = [m \in {1} |-> NoCall]
            /\ log' = [m \in {1} |-> << >>]
            /\ thrown' = "none"
    /\ calls' = calls + 1
    /\ UNCHANGED <<arrays, config, pc, c, ix, trace, rotor, results>>

\* enigma.encryptChar(ch) with a letter, once
PressKey ==
    /\ enigma # << >>
    /\ call[1].op = "none"
    /\ \E ch \in {<<"A">>, <<"B">>, <<"C">>} :
          IF stepRotorsThrows(enigma[1])
          THEN /\ thrown' = "TypeError"
               /\ call' = [call EXCEPT ![1] =
                               [op |-> "encryptChar", arg |-> ch,
                                ret |-> Undefined, before |-> enigma[1]]]
               /\ Logged(1, "encryptChar", ch, Undefined)
               /\ calls' = calls + 1
               /\ UNCHANGED <<arrays, config, enigma, pc, c, ix, trace,
                              rotor, results>>
          ELSE EncryptCharCall(1, ch)

\* process throws where its first call of encryptChar with a letter throws;
\* the characters before that letter have changed nothing
processThrows(e, text) ==
    /\ stepRotorsThrows(e)
    /\ \E i \in 1..Len(toUpperCase(text)) :
          includes(alphabet, <<toUpperCase(text)[i]>>)

\* enigma.process(text), once: no text, a digit, a lower-case letter and a
\* digit
ProcessOnce ==
    /\ enigma # << >>
    /\ call[1].op = "none"
    /\ \E text \in {<< >>, <<"1">>, <<"a", "1">>} :
          IF processThrows(enigma[1], text)
          THEN /\ thrown' = "TypeError"
               /\ call' = [call EXCEPT ![1] =
                               [op |-> "process", arg |-> text,
                                ret |-> Undefined, before |-> enigma[1]]]
               /\ Logged(1, "process", text, Undefined)
               /\ calls' = calls + 1
               /\ UNCHANGED <<arrays, config, enigma, pc, c, ix, trace,
                              rotor, results>>
          ELSE ProcessCall(1, text)

NextConstruct == NewEnigmaCall \/ PressKey \/ ProcessOnce

SpecConstruct == InitConstruct /\ [][NextConstruct]_vars

\* the constructor has been called
Constructed == calls >= 1

\* the constructor ended with a ConfigurationError and returned no machine
Rejected == thrown = "ConfigurationError" /\ enigma = << >>

InRange(list) == \A i \in 1..Len(list) : list[i] \in 0..25

\* every pair is two letters A-Z and no letter is in two pairs
WellFormedPairs(pairs) ==
    /\ \A k \in 1..Len(pairs) : \A j \in 1..2 :
          Len(pairs[k][j]) = 1 /\ IsLetter(pairs[k][j][1])
    /\ \A i \in 1..Len(pairs), j \in 1..Len(pairs) :
          i < j => {pairs[i][1], pairs[i][2]} \cap {pairs[j][1], pairs[j][2]} = {}

\* the parts of the configuration of spec section 4.4: three catalog rotors;
\* three positions and three ring settings in 0..25; pairs of letters that
\* share no letter
WellFormedRotors ==
    Len(config.rotorIDs) = 3 /\ \A i \in 1..3 : config.rotorIDs[i] \in 0..2

WellFormedNumbers ==
    /\ Len(config.rotorPositions) = 3 /\ InRange(config.rotorPositions)
    /\ Len(config.ringSettings) = 3 /\ InRange(config.ringSettings)

WellFormedPlugboard == WellFormedPairs(arrays[config.plugboardPairs])

WellFormedConfig ==
    WellFormedRotors /\ WellFormedNumbers /\ WellFormedPlugboard

\* C16: positions and ring settings stay in 0..25.  In every state, each of
\* the three rotors of a machine has its position and its ring setting in
\* 0..25.
C16_RotorStateInRange ==
    \A m \in DOMAIN enigma :
        rotorsLength(enigma[m]) = 3 =>
            \A i \in 0..2 :
                /\ enigma[m].rotors[i].position \in 0..25
                /\ enigma[m].rotors[i].ringSetting \in 0..25

\* C16 holds of the machines built from a well-formed configuration: the
\* values that leave 0..25 are the ones the constructor was given
C16_WhenConfigWellFormed == WellFormedConfig => C16_RotorStateInRange

\* C17: an unknown rotor is rejected.  When the constructor has been called
\* with three identifiers of which one is outside the catalog (the other
\* arguments being well-formed), it has ended with a ConfigurationError and
\* there is no machine.
C17_UnknownRotorRejected ==
    (/\ Constructed
     /\ Len(config.rotorIDs) = 3 /\ ~WellFormedRotors
     /\ WellFormedNumbers /\ WellFormedPlugboard)
        => Rejected

\* what the constructor does with an identifier outside the catalog: no
\* machine, and the TypeError of reading ROTORS[id].wiring
C17_TypeErrorInstead ==
    (Constructed /\ \E i \in 1..Len(config.rotorIDs) :
                        config.rotorIDs[i] \notin 0..2)
        => (thrown = "TypeError" /\ enigma = << >>)

\* C18: a position or ring setting outside 0..25 is rejected.  When the
\* constructor has been called with such a value (the other arguments being
\* well-formed), it has ended with a ConfigurationError and there is no
\* machine, so that no rotor ever holds the value or the value reduced
\* modulo 26.
C18_OutOfRangeRejected ==
    (/\ Constructed
     /\ ~(InRange(config.rotorPositions) /\ InRange(config.ringSettings))
     /\ WellFormedRotors /\ WellFormedPlugboard)
        => Rejected

\* C19: a plugboard that is no partial involution is rejected.  When the
\* constructor has been called with pairs that share a letter or hold a
\* symbol that is no letter (the other arguments being well-formed), it has
\* ended with a ConfigurationError and there is no machine; no machine that
\* has processed a character has such pairs.
C19_BadPlugboardRejected ==
    /\ (/\ Constructed
        /\ ~WellFormedPlugboard
        /\ WellFormedRotors /\ WellFormedNumbers)
          => Rejected
    /\ \A m \in DOMAIN enigma :
          (call[m].op # "none" /\ thrown = "none")
              => WellFormedPairs(arrays[enigma[m].plugboardPairs])

\* C20: exactly three rotors.  When the constructor has been called with
\* fewer or more than three identifiers of catalog rotors (the other
\* arguments being well-formed), it has ended with a ConfigurationError and
\* there is no machine; every machine has three rotors.
C20_ThreeRotors ==
    /\ (/\ Constructed
        /\ Len(config.rotorIDs) # 3
        /\ WellFormedNumbers /\ WellFormedPlugboard)
          => Rejected
    /\ \A m \in DOMAIN enigma : rotorsLength(enigma[m]) = 3

\* C21: no runtime error after construction.  No call of encryptChar or
\* process on a machine the constructor has returned ends with an exception.
C21_NoRuntimeError ==
    \A m \in DOMAIN enigma : call[m].op # "none" => thrown = "none"

\* C21 holds of the machines built from a well-formed configuration: the
\* calls that throw are those on a machine of fewer than three rotors
C21_WhenConfigWellFormed == WellFormedConfig => C21_NoRuntimeError

----------------------------------------------------------------------------
(* SpecTwo: two machines, each built by its own call of new Enigma with    *)
(* its own list of pairs, are given letters and texts in any order.        *)
(* config and arrays hold, for each machine, the arguments it was built    *)
(* from.                                                                   *)

\* machine 2 starts where machine 1 starts, or at [0, 0, 0]; ring settings
\* and pairs are the plain ones or [1, 2, 3] with AB CD
InitTwo ==
    \E p1 \in StartPositions(<<0, 1, 2>>) :
      \E p2 \in {p1, <<0, 0, 0>>} :
        \E rings \in RingChoices, pairs \in PairChoices :
          /\ (rings = <<0, 0, 0>>) <=> (pairs = << >>)
          /\ arrays = [ref \in 1..2 |-> pairs]
          /\ config = [m \in 1..2 |->
                          [rotorIDs |-> <<0, 1, 2>>,
                           rotorPositions |-> IF m = 1 THEN p1 ELSE p2,
                           ringSettings |-> rings, plugboardPairs |-> m]]
          /\ enigma = [m \in 1..2 |->
                          NewEnigma(<<0, 1, 2>>, IF m = 1 THEN p1 ELSE p2,
                                    rings, m)]
          /\ call = [m \in 1..2 |-> NoCall]
          /\ calls = 0
          /\ pc = "idle"
          /\ c = << >>
          /\ ix = 0
          /\ trace = << >>
          /\ thrown = "none"
          /\ rotor = << >>
          /\ results = << >>
          /\ log = [m \in 1..2 |-> << >>]

KeyOn(m) ==
    /\ calls < MaxCalls
    /\ \E ch \in {<<"A">>, <<"B">>} : EncryptCharCall(m, ch)

TextOn(m) ==
    /\ calls < MaxCalls
    /\ ProcessCall(m, <<"a", "B">>)

NextTwo == \E m \in 1..2 : KeyOn(m) \/ TextOn(m)

SpecTwo == InitTwo /\ [][NextTwo]_vars

\* the machine new Enigma built for m
FreshOf(m) ==
    NewEnigma(config[m].rotorIDs, config[m].rotorPositions,
              config[m].ringSettings, config[m].plugboardPairs)

\* the machine e given the calls of entries, one after the other, with
\* nothing else happening: the machine at the end and the values returned
RECURSIVE RunAlone(_, _)
RunAlone(e, entries) ==
    IF entries = << >> THEN [enigma |-> e, rets |-> << >>]
    ELSE LET r == IF Head(entries).op = "process"
                  THEN process(e, Head(entries).arg)
                  ELSE encryptChar(e, Head(entries).arg)
             rest == RunAlone(r.enigma, Tail(entries))
         IN  [enigma |-> rest.enigma, rets |-> <<r.ret>> \o rest.rets]

\* C22: machines are isolated.  However the calls on two machines are
\* interleaved, each machine stands where its own calls alone take it from
\* its construction (so a machine not called has not moved), and each of its
\* calls returned what it returns when the machine runs alone.
C22_Isolated ==
    \A m \in 1..2 :
        LET alone == RunAlone(FreshOf(m), log[m])
        IN  /\ enigma[m] = alone.enigma
            /\ \A k \in 1..Len(log[m]) : log[m][k].ret = alone.rets[k]

\* two machines of the same configuration values: two calls on the first, one
\* on the second, and the second has moved once from the common start
C22_Witness ==
    /\ config[1].rotorPositions = config[2].rotorPositions
    /\ Len(log[1]) = 2 /\ Len(log[2]) = 1
    /\ log[1][1].op = "encryptChar" /\ log[1][2].op = "process"
    /\ log[2][1].op = "encryptChar"
    /\ enigma[1].rotors # enigma[2].rotors
    /\ enigma[2].rotors[2].position
         = (config[2].rotorPositions[3] + 1) % 26

\* the machine e with its three rotors put at position 0
AtZero(e) ==
    [e EXCEPT !.rotors = [i \in DOMAIN e.rotors |->
                             [e.rotors[i] EXCEPT !.position = 0]]]

\* C29: the settings are immutable.  No call of encryptChar (stepRotors
\* included) or process on either machine changes any rotor's ring setting,
\* wiring or notch, the machine's plugboardPairs or the pairs in the list:
\* a machine changes in its rotor positions only.
C29_SettingsKept ==
    [][/\ arrays' = arrays
       /\ \A m \in 1..2 : AtZero(enigma'[m]) = AtZero(enigma[m])]_vars

\* three calls on machine 1, which has ring settings and pairs: its rotors
\* have moved, and its settings and pairs are those it was built with
C29_Witness ==
    /\ Len(log[1]) = 3
    /\ log[1][1].op = "encryptChar" /\ log[1][2].op = "process"
    /\ config[1].ringSettings = <<1, 2, 3>>
    /\ arrays[enigma[1].plugboardPairs] # << >>
    /\ enigma[1] # FreshOf(1)
    /\ AtZero(enigma[1]) = AtZero(FreshOf(1))
    /\ \A i \in 0..2 :
          enigma[1].rotors[i].ringSetting = config[1].ringSettings[i + 1]

----------------------------------------------------------------------------
(* SpecCase: machine 1 processes a text of upper-case and lower-case       *)
(* letters, digits and the sharp s, then machine 2, built from the same    *)
(* configuration, processes what machine 1 returned.                       *)

CaseSymbols == {"A", "b", "1", "ß"}

\* the short texts, and 'hello' of src/7/test_report.md
CaseTexts ==
    StringsUpTo(CaseSymbols, MaxLen) \cup {<<"h", "e", "l", "l", "o">>}

\* ring settings and pairs are the plain ones or [1, 2, 3] with AB CD
InitCase ==
    \E p \in StartPositions(<<0, 1, 2>>), rings \in RingChoices,
       pairs \in PairChoices :
        /\ (rings = <<0, 0, 0>>) <=> (pairs = << >>)
        /\ Construct(<<0, 1, 2>>, p, rings, pairs)

EncryptCase ==
    /\ call[1].op = "none"
    /\ \E message \in CaseTexts : ProcessCall(1, message)

NextCase == EncryptCase \/ Decrypt

SpecCase == InitCase /\ [][NextCase]_vars

\* C24: case insensitivity.  process(M) returns what process of the
\* upper-cased M returns on the same machine and leaves the rotors where that
\* call leaves them; and when a second fresh machine of the same
\* configuration has processed the output, it has returned the upper-cased M.
C24_CaseInsensitive ==
    /\ call[1].op = "process" =>
          LET upper == process(call[1].before, toUpperCase(call[1].arg))
          IN  /\ call[1].ret = upper.ret
              /\ enigma[1] = upper.enigma
    /\ (/\ call[1].op = "process" /\ call[1].before = Fresh
        /\ call[2].op = "process" /\ call[2].before = Fresh
        /\ call[2].arg = call[1].ret)
          => call[2].ret = toUpperCase(call[1].arg)

\* hello comes back as HELLO
C24_Witness ==
    /\ call[1].op = "process" /\ call[2].op = "process"
    /\ call[1].arg = <<"h", "e", "l", "l", "o">>
    /\ call[2].arg = call[1].ret
    /\ call[2].ret = <<"H", "E", "L", "L", "O">>
    /\ enigma[1].rotors[2].position
         = (config.rotorPositions[3] + 5) % 26
    /\ arrays[config.plugboardPairs] # << >>

----------------------------------------------------------------------------
(* SpecFresh: two machines are built from one configuration; machine 1     *)
(* processes a text, then machine 2 processes the same text or what        *)
(* machine 1 returned.                                                     *)

\* [0, 0, 0] of createEnigma([0, 0, 0], [0, 0, 0], []) and the positions
\* around the turnovers
InitFresh ==
    \E p \in {<<0, 0, 0>>} \cup StartPositions(<<0, 1, 2>>),
       rings \in RingChoices, pairs \in PairChoices :
        Construct(<<0, 1, 2>>, p, rings, pairs)

FreshTexts ==
    {<<"A">>, <<"A", "A">>, <<"b", "1">>, <<"H", "E", "L", "L", "O">>}

First ==
    /\ call[1].op = "none"
    /\ \E text \in FreshTexts : ProcessCall(1, text)

Second ==
    /\ call[1].op = "process"
    /\ call[2].op = "none"
    /\ \E text \in {call[1].arg, call[1].ret} : ProcessCall(2, text)

NextFresh == First \/ Second

SpecFresh == InitFresh /\ [][NextFresh]_vars

\* rotors [I, II, III], all positions 0, all ring settings 0, no pairs
PlainConfig ==
    /\ config.rotorIDs = <<0, 1, 2>>
    /\ config.rotorPositions = <<0, 0, 0>>
    /\ config.ringSettings = <<0, 0, 0>>
    /\ arrays[config.plugboardPairs] = << >>

\* C25: determinism.  When the two machines built from one configuration
\* have each processed, as their first call, the same text, they have
\* returned the same output and stand at the same rotor positions.  The
\* machine of the plain configuration returns for 'A' one letter, D, and the
\* second machine given that letter returns 'A'.
C25_Deterministic ==
    /\ (/\ Len(log[1]) = 1 /\ Len(log[2]) = 1
        /\ log[1][1].op = "process" /\ log[2][1].op = "process"
        /\ log[2][1].arg = log[1][1].arg)
          => /\ log[2][1].ret = log[1][1].ret
             /\ enigma[2].rotors = enigma[1].rotors
    /\ (PlainConfig /\ Len(log[1]) = 1 /\ log[1][1].arg = <<"A">>)
          => /\ log[1][1].ret = <<"D">>
             /\ (Len(log[2]) = 1 /\ log[2][1].arg = log[1][1].ret)
                   => log[2][1].ret = <<"A">>

\* both machines of the plain configuration have processed 'A'
C25_Witness ==
    /\ PlainConfig
    /\ Len(log[1]) = 1 /\ Len(log[2]) = 1
    /\ log[1][1] = [op |-> "process", arg |-> <<"A">>, ret |-> <<"D">>]
    /\ log[2][1] = log[1][1]
    /\ enigma[1].rotors[2].position = 1
    /\ enigma[2].rotors = enigma[1].rotors

----------------------------------------------------------------------------
(* SpecRings: two machines are built with rotors [0, 1, 2], the same       *)
(* positions and no pairs, each with ring settings of its own, and each    *)
(* processes one letter.                                                   *)

InitRings ==
    \E p \in {<<0, 0, 0>>} \cup StartPositions(<<0, 1, 2>>) :
      \E rings1 \in RingChoices, rings2 \in RingChoices :
          /\ arrays = [ref \in 1..2 |-> << >>]
          /\ config = [m \in 1..2 |->
                          [rotorIDs |-> <<0, 1, 2>>,
                           rotorPositions |-> p,
                           ringSettings |-> IF m = 1 THEN rings1 ELSE rings2,
                           plugboardPairs |-> m]]
          /\ enigma = [m \in 1..2 |->
                          NewEnigma(<<0, 1, 2>>, p,
                                    IF m = 1 THEN rings1 ELSE rings2, m)]
          /\ call = [m \in 1..2 |-> NoCall]
          /\ calls = 0
          /\ pc = "idle"
          /\ c = << >>
          /\ ix = 0
          /\ trace = << >>
          /\ thrown = "none"
          /\ rotor = << >>
          /\ results = << >>
          /\ log = [m \in 1..2 |-> << >>]

ProcessLetter(m) ==
    /\ log[m] = << >>
    /\ \E message \in {<<"A">>, <<"B">>} : ProcessCall(m, message)

NextRings == \E m \in 1..2 : ProcessLetter(m)

SpecRings == InitRings /\ [][NextRings]_vars

\* both machines have processed 'A' from positions (0, 0, 0), machine 1 with
\* ring settings (0, 0, 0) and machine 2 with ring settings (1, 2, 3)
RingsCase ==
    /\ \A m \in 1..2 :
          /\ config[m].rotorPositions = <<0, 0, 0>>
          /\ Len(log[m]) = 1
          /\ log[m][1].arg = <<"A">>
    /\ config[1].ringSettings = <<0, 0, 0>>
    /\ config[2].ringSettings = <<1, 2, 3>>

\* C31: ring settings take part in the substitution.  With rotors [0, 1, 2],
\* positions (0, 0, 0) and no pairs, the fresh machine with ring settings
\* (0, 0, 0) and the fresh machine with ring settings (1, 2, 3) return two
\* different letters for 'A'.
C31_RingSettingsMatter ==
    RingsCase =>
        /\ log[1][1].ret # log[2][1].ret
        /\ \A m \in 1..2 :
              Len(log[m][1].ret) = 1 /\ IsLetter(log[m][1].ret[1])

\* 'A' gives 'D' with ring settings (0, 0, 0)
C31_Witness ==
    /\ RingsCase
    /\ log[1][1].ret = <<"D">>
    /\ log[2][1].ret # <<"D">>
    /\ enigma[1].rotors[0].ringSetting = 0
    /\ enigma[2].rotors[0].ringSetting = 1

----------------------------------------------------------------------------
(* SpecMod: mod is called with a number, negative or not, and a positive   *)
(* modulus.                                                                *)

InitMod == Standalone(<< >>, << >>)

ModCall ==
    /\ calls = 0
    /\ \E n \in (-MaxOperand)..MaxOperand, m \in 1..MaxModulus :
           Returned("mod", <<n, m>>, mod(n, m))
    /\ UNCHANGED <<arrays, config, enigma, call, pc, c, ix, trace, thrown, rotor, log>>

NextMod == ModCall

SpecMod == InitMod /\ [][NextMod]_vars

\* r is congruent to n modulo m
Congruent(r, n, m) ==
    \E q \in (-(MaxOperand + 1))..(MaxOperand + 1) : n = (q * m) + r

\* C32: mod.  For every integer n, negative and below -m included, and every
\* positive m, mod(n, m) is the value r with 0 <= r < m that is congruent to
\* n modulo m; mod(-1, 26) = 25, mod(-27, 26) = 25 and mod(5, 3) = 2.
C32_Mod ==
    \A k \in 1..Len(results) :
        results[k].op = "mod" =>
            LET n == results[k].arg[1]
                m == results[k].arg[2]
                r == results[k].ret
            IN  /\ 0 <= r /\ r < m
                /\ Congruent(r, n, m)
                /\ (n = -1 /\ m = 26) => r = 25
                /\ (n = -27 /\ m = 26) => r = 25
                /\ (n = 5 /\ m = 3) => r = 2

\* mod(-27, 26): n below -m
C32_Witness ==
    /\ Len(results) = 1
    /\ results[1] = [op |-> "mod", arg |-> <<-27, 26>>, ret |-> 25]

----------------------------------------------------------------------------
(* SpecPeriod: the stepping state machine of rotor order [0, 1, 2].  From  *)
(* every position triple both machines take one step; machine 2 then       *)
(* rests, holding the triple after the first keystroke, and machine 1      *)
(* steps on.  The long runs are those from LongStarts: (0, 0, 0), and      *)
(* (0, 4, 0), where the middle rotor starts at its notch.                  *)

LongStarts == {<<0, 0, 0>>, <<0, 4, 0>>}

InitPeriod ==
    \E p \in [1..3 -> Positions] :
        Construct(<<0, 1, 2>>, p, <<0, 0, 0>>, << >>)

\* the first keystroke's stepRotors, on both machines
StepRotorsFirst ==
    /\ calls = 0
    /\ enigma' = [m \in 1..2 |-> stepRotors(enigma[m])]
    /\ calls' = 1
    /\ UNCHANGED <<arrays, config, call, pc, c, ix, trace, thrown, rotor, results, log>>

\* a later keystroke's stepRotors, on machine 1
StepRotorsCall ==
    /\ calls >= 1
    /\ calls < MaxRun
    /\ config.rotorPositions \in LongStarts
    /\ enigma' = [enigma EXCEPT ![1] = stepRotors(enigma[1])]
    /\ calls' = calls + 1
    /\ UNCHANGED <<arrays, config, call, pc, c, ix, trace, thrown, rotor, results, log>>

NextPeriod == StepRotorsFirst \/ StepRotorsCall

SpecPeriod == InitPeriod /\ [][NextPeriod]_vars

Period == 26 * 25 * 26

\* the position triple of machine m
Triple(m) ==
    <<enigma[m].rotors[0].position, enigma[m].rotors[1].position,
      enigma[m].rotors[2].position>>

\* the triples no keystroke leads to: the middle rotor (II) at its notch 4
\* unless the right rotor (III) has just left its notch 21, and the middle
\* rotor at 5 when the right rotor has just left its notch
NoPredecessor ==
    {p \in [1..3 -> Positions] :
        \/ p[2] = 4 /\ p[3] # 22
        \/ p[2] = 5 /\ p[3] = 22}

\* C34: the period of the stepping machine, rotor order [0, 1, 2].  The
\* triple after the first keystroke (machine 2 holds it) is machine 1's
\* triple again after 16900 more keystrokes and after no fewer.  No keystroke
\* leads to any of the 676 triples of NoPredecessor, from whatever triple it
\* starts; so the 16900 triples a long run goes through are all the others,
\* every start's first keystroke leads onto that one cycle, and a start in
\* NoPredecessor is never seen again.
C34_Period ==
    /\ Cardinality(NoPredecessor) = 676
    /\ calls >= 1 =>
          /\ (Triple(1) = Triple(2)) <=> ((calls - 1) % Period = 0)
          /\ Triple(1) \notin NoPredecessor

\* the long run from (0, 4, 0), a triple without predecessor: 16901
\* keystrokes later machine 1 is at (1, 5, 1), where the first keystroke
\* took it
C34_Witness ==
    /\ calls = Period + 1
    /\ config.rotorPositions = <<0, 4, 0>>
    /\ config.rotorPositions \in NoPredecessor
    /\ Triple(2) = <<1, 5, 1>>
    /\ Triple(1) = Triple(2)

----------------------------------------------------------------------------
(* SpecConcat: machine 1 processes a text a, then a text b; machine 2,     *)
(* built from the same configuration, processes a + b in one call.         *)

Parts == StringsUpTo({"A", "b"}, MaxPart) \cup {<<"A", "1">>}

InitConcat ==
    \E p \in {<<0, 0, 0>>} \cup StartPositions(<<0, 1, 2>>),
       rings \in RingChoices, pairs \in PairChoices :
        /\ (rings = <<0, 0, 0>>) <=> (pairs = << >>)
        /\ Construct(<<0, 1, 2>>, p, rings, pairs)

ProcessPart ==
    /\ Len(log[1]) < 2
    /\ \E text \in Parts : ProcessCall(1, text)

ProcessWhole ==
    /\ Len(log[1]) = 2
    /\ log[2] = << >>
    /\ ProcessCall(2, log[1][1].arg \o log[1][2].arg)

NextConcat == ProcessPart \/ ProcessWhole

SpecConcat == InitConcat /\ [][NextConcat]_vars

\* C36: rotor state persists across calls.  When machine 1 has processed a
\* and then b, and a fresh machine of the same configuration has processed
\* a + b, the two outputs of machine 1, one after the other, are the output
\* of the second machine, and both machines end at the same rotor positions.
C36_StatePersists ==
    (/\ Len(log[1]) = 2 /\ Len(log[2]) = 1
     /\ log[2][1].arg = log[1][1].arg \o log[1][2].arg)
        => /\ log[1][1].ret \o log[1][2].ret = log[2][1].ret
           /\ PositionsOf(enigma[1]) = PositionsOf(enigma[2])

\* the same text twice on machine 1 of the plain configuration: 'A' gives 'D'
\* the first time and another letter the second time
C36_Witness ==
    /\ PlainConfig
    /\ Len(log[1]) = 2 /\ Len(log[2]) = 1
    /\ log[1][1].arg = <<"A">> /\ log[1][2].arg = <<"A">>
    /\ log[1][1].ret = <<"D">>
    /\ log[1][2].ret # log[1][1].ret
    /\ log[2][1].arg = <<"A", "A">>
    /\ log[2][1].ret = log[1][1].ret \o log[1][2].ret
    /\ enigma[1].rotors[2].position = 2
    /\ enigma[2].rotors[2].position = 2

----------------------------------------------------------------------------
(* SpecSameState: two machines built from one valid configuration, so in   *)
(* the same rotor state, are each given one letter, any of the 26.         *)

\* the left rotor starts at 25, the middle and the right rotor around their
\* turnovers
InitSameState ==
    \E ids \in RotorOrders :
      \E p \in StartPositions(ids), rings \in RingChoices, pairs \in PairChoices :
        /\ p[1] = 25
        /\ (rings = <<0, 0, 0>>) <=> (pairs = << >>)
        /\ Construct(ids, p, rings, pairs)

\* machine 1 is given its letter first
LetterOn(m) ==
    /\ call[m].op = "none"
    /\ m = 2 => call[1].op # "none"
    /\ \E sym \in Letters : EncryptCharCall(m, <<sym>>)

NextSameState == \E m \in 1..2 : LetterOn(m)

SpecSameState == InitSameState /\ [][NextSameState]_vars

\* both machines have been given a letter
BothPressed ==
    \A m \in 1..2 :
        /\ call[m].op = "encryptChar"
        /\ Len(call[m].arg) = 1 /\ IsLetter(call[m].arg[1])

\* C37: encryptChar is total on the letters and a permutation at each rotor
\* state.  A letter given to a machine of a valid configuration comes back as
\* one letter A-Z; and two machines in the same rotor state given two
\* different letters return two different letters, so that the 26 letters
\* have 26 different images.
C37_Permutation ==
    /\ \A m \in 1..2 :
          call[m].op = "encryptChar" =>
              (Len(call[m].ret) = 1 /\ IsLetter(call[m].ret[1]))
    /\ BothPressed =>
          /\ call[1].before = call[2].before
          /\ (call[1].arg # call[2].arg) => (call[1].ret # call[2].ret)
          /\ (call[1].arg = call[2].arg) => (call[1].ret = call[2].ret)

\* the plugged letters A and B from one state, with ring settings
C37_Witness ==
    /\ BothPressed
    /\ call[1].arg = <<"A">> /\ call[2].arg = <<"B">>
    /\ arrays[enigma[1].plugboardPairs] # << >>
    /\ enigma[1].rotors[0].ringSetting = 1
    /\ call[1].before = call[2].before
    /\ call[1].ret # call[2].ret
    /\ IsLetter(call[1].ret[1]) /\ IsLetter(call[2].ret[1])

----------------------------------------------------------------------------
(* SpecOffset: two rotors of one wiring, the first at any position p with  *)
(* any ring setting s, the second at position (p - s) mod 26 with ring     *)
(* setting 0, are given the same letter, forward or backward.  rotor holds *)
(* the two rotors, and a result's ret what each of them returned.          *)

InitOffset ==
    \E id \in 0..2, ringSetting \in Positions, position \in Positions :
        Standalone(<<Rotor(RotorSpec(id).wiring, RotorSpec(id).notch,
                           ringSetting, position),
                     Rotor(RotorSpec(id).wiring, RotorSpec(id).notch,
                           0, (position - ringSetting + 26) % 26)>>, << >>)

BothForward ==
    /\ results = << >>
    /\ \E x \in Letters :
           Returned("forward", <<x>>,
                    <<forward(rotor[1], <<x>>), forward(rotor[2], <<x>>)>>)
    /\ UNCHANGED <<arrays, config, enigma, call, pc, c, ix, trace, thrown, rotor, log>>

BothBackward ==
    /\ results = << >>
    /\ \E x \in Letters :
           Returned("backward", <<x>>,
                    <<backward(rotor[1], <<x>>), backward(rotor[2], <<x>>)>>)
    /\ UNCHANGED <<arrays, config, enigma, call, pc, c, ix, trace, thrown, rotor, log>>

NextOffset == BothForward \/ BothBackward

SpecOffset == InitOffset /\ [][NextOffset]_vars

\* C38: a rotor substitutes by (position - ring setting) mod 26 alone.  The
\* rotor at position p with ring setting s returns, forward and backward,
\* for every letter what the rotor at (p - s) mod 26 with ring setting 0
\* returns; so any two rotors of equal (p - s) mod 26 return the same.  The
\* two are at their notch together only when their positions are the same.
C38_OffsetOnly ==
    /\ \A k \in 1..Len(results) :
          /\ results[k].ret[1] = results[k].ret[2]
          /\ Len(results[k].ret[1]) = 1 /\ IsLetter(results[k].ret[1][1])
    /\ (rotor[1].position - rotor[1].ringSetting
            - (rotor[2].position - rotor[2].ringSetting)) % 26 = 0
    /\ (atNotch(rotor[1]) /\ atNotch(rotor[2]))
          => rotor[1].position = rotor[2].position

\* rotor I at its notch 16 with ring setting 5 and rotor I at 11 with ring
\* setting 0, not at its notch, take A backward to the same letter
C38_Witness ==
    /\ Len(results) = 1
    /\ results[1].op = "backward" /\ results[1].arg = <<"A">>
    /\ rotor[1].wiring = RotorSpec(0).wiring
    /\ rotor[1].position = 16 /\ rotor[1].ringSetting = 5
    /\ rotor[2].position = 11 /\ rotor[2].ringSetting = 0
    /\ atNotch(rotor[1]) /\ ~atNotch(rotor[2])
    /\ results[1].ret[1] = results[1].ret[2]

----------------------------------------------------------------------------
(* SpecAlias: the caller builds machine 1 with a list of pairs it keeps    *)
(* (reference 1 of arrays) and machine 2, of the same configuration        *)
(* values, with a list of equal content that nobody else holds (reference  *)
(* 2).  The caller may then change its list: push a pair onto it, or empty *)
(* it.  Machine 1 is given a letter, then machine 2 the same letter.       *)

InitAlias ==
    \E p \in {<<0, 0, 0>>} \cup StartPositions(<<0, 1, 2>>) :
      \E rings \in RingChoices, pairs \in PairChoices :
          /\ arrays = [ref \in 1..2 |-> pairs]
          /\ config = [m \in 1..2 |->
                          [rotorIDs |-> <<0, 1, 2>>,
                           rotorPositions |-> p,
                           ringSettings |-> rings, plugboardPairs |-> m]]
          /\ enigma = [m \in 1..2 |-> NewEnigma(<<0, 1, 2>>, p, rings, m)]
          /\ call = [m \in 1..2 |-> NoCall]
          /\ calls = 0
          /\ pc = "idle"
          /\ c = << >>
          /\ ix = 0
          /\ trace = << >>
          /\ thrown = "none"
          /\ rotor = << >>
          /\ results = << >>
          /\ log = [m \in 1..2 |-> << >>]

\* pairs.push(['E', 'F']) by the caller, after the construction
PushPair ==
    /\ calls = 0
    /\ arrays[1] = arrays[2]
    /\ arrays' = [arrays EXCEPT ![1] = Append(@, <<(<<"E">>), (<<"F">>)>>)]
    /\ UNCHANGED <<config, enigma, call, calls, pc, c, ix, trace, thrown, rotor, results, log>>

\* pairs.length = 0 by the caller, after the construction
EmptyPairs ==
    /\ calls = 0
    /\ arrays[1] = arrays[2]
    /\ arrays[1] # << >>
    /\ arrays' = [arrays EXCEPT ![1] = << >>]
    /\ UNCHANGED <<config, enigma, call, calls, pc, c, ix, trace, thrown, rotor, results, log>>

FirstLetter ==
    /\ log[1] = << >>
    /\ \E ch \in {<<"A">>, <<"E">>, <<"G">>} : EncryptCharCall(1, ch)

SameLetter ==
    /\ Len(log[1]) = 1
    /\ log[2] = << >>
    /\ EncryptCharCall(2, log[1][1].arg)

NextAlias == PushPair \/ EmptyPairs \/ FirstLetter \/ SameLetter

SpecAlias == InitAlias /\ [][NextAlias]_vars

\* C39: the pairing is fixed at construction.  Machine 1, whose list the
\* caller may have changed after the construction, returns for a letter what
\* machine 2, built from the same values, returns for it.
C39_PairingFixed ==
    (Len(log[1]) = 1 /\ Len(log[2]) = 1 /\ log[2][1].arg = log[1][1].arg)
        => log[1][1].ret = log[2][1].ret

\* C39 holds as long as the caller leaves its list as it was
C39_WhenListUntouched ==
    (arrays[1] = arrays[2]) => C39_PairingFixed

============================================================================
